---- MODULE Spec2Model ----
(***************************************************************************)
(* Model of the two numerical components of                                *)
(* src/submissions/submission_netflix.py:                                  *)
(*   create_folds (lines 405-414): shuffle, equal-width binning and the    *)
(*                stratified k-fold split;                                 *)
(*   netflix      (lines 377-402): the ridge blend solved from RMSEs;      *)
(*   make_predictions (lines 417-468): which files feed which column of    *)
(*                the blend.                                               *)
(* Arrays are sequences (1-based); the row indices create_folds returns    *)
(* are kept 0-based as in the source.  Real numbers are exact rationals.   *)
(***************************************************************************)
EXTENDS Integers, Sequences, FiniteSets, TLC

VARIABLES
  \* create_folds: the targets, n_splits, random_state (None or a seed), the
  \* state of the global np.random generator, the position of the two-call
  \* run and the outcomes of the two calls.
  y, n_splits, random_state, globalRng, pc, out1, out2,
  \* netflix: the arguments es, ps, e0, l, the ground truth the scores were
  \* measured against (<<>> when they were simply given), the position of
  \* the run, the outcome of the call and of the call on the doubled data.
  es, ps, e0, l, truth, npc, nout, noutD,
  \* make_predictions: the argument dataset_paths (for each path, how many
  \* OOF CSV files and how many checkpoints lie under it), the lists mpaths
  \* and oof_paths, the model_i columns of the frames oofs and df (each
  \* column by the path its values come from), the position in the function
  \* (phase and loop index) and its outcome.
  dataset_paths, mpaths, oof_paths, oofs, df, mpc, mi, mout

foldVars == <<y, n_splits, random_state, globalRng, pc, out1, out2>>
netflixVars == <<es, ps, e0, l, truth, npc, nout, noutD>>
predictVars == <<dataset_paths, mpaths, oof_paths, oofs, df, mpc, mi, mout>>
vars == <<foldVars, netflixVars, predictVars>>

\* ---------------------------------------------------------------- bounds
\* Largest number of rows of the table passed to create_folds.
MaxN == 4
\* Largest target value (targets are drawn from 0..MaxTarget).
MaxTarget == 2
\* Largest n_splits passed to create_folds.
MaxSplits == 3
\* Largest number of models (scores, prediction vectors) passed to netflix.
MaxM == 2
\* Largest length of a prediction vector passed to netflix.
MaxLen == 2
\* Largest number of dataset paths passed to make_predictions.
MaxPaths == 2
\* Largest number of OOF CSV files directly under one dataset path.
MaxCsvs == 2
\* Largest number of checkpoints under one dataset path.
MaxCkpts == 1

\* random_state=None, the default: no seed (seeds are naturals).
None == -1
Seeds == {0, 1}
RandomStates == {None} \cup Seeds

\* ------------------------------------------------------- sequence helpers
RECURSIVE SeqSum(_)
SeqSum(s) == IF s = <<>> THEN 0 ELSE Head(s) + SeqSum(Tail(s))

Range(s) == {s[i] : i \in DOMAIN s}

SeqsUpTo(S, lo, hi) == UNION {[1..n -> S] : n \in lo..hi}

Abs(a) == IF a < 0 THEN -a ELSE a

Min(S) == CHOOSE x \in S : \A z \in S : x <= z
Max(S) == CHOOSE x \in S : \A z \in S : x >= z

\* The ascending sequence of the elements of a finite set of integers
\* (numpy's boolean-mask indexing of arange(n) keeps ascending order).
RECURSIVE Ascending(_)
Ascending(S) == IF S = {} THEN <<>> ELSE <<Min(S)>> \o Ascending(S \ {Min(S)})

\* np.arange(n): 0, 1, ..., n-1.
Arange(n) == [i \in 1..n |-> i - 1]

\* --------------------------------------------- the random number generator
\* numpy's generator (MT19937 in the library) is stood in for by a small
\* congruential generator: what matters to create_folds is that a generator
\* is a state, that a draw advances it, and that RandomState(seed) is a
\* function of the seed alone.
RngStates == 0..12
RngNext(s) == (2 * s + 1) % 13
\* np.random.RandomState(seed)
Seeded(seed) == (7 * seed + 2) % 13

\* check_random_state(random_state) as pandas' sample and StratifiedKFold
\* apply it: None is the global np.random generator (state g), an int seed
\* a fresh generator.
\* (Variant: the seed is ignored and the global generator is used.)
RandomStateOfGlobal(rs, g) == g
RandomStateOf(rs, g) == IF rs = None THEN g ELSE Seeded(rs)

\* The global generator after a use that left the used generator in state s.
GlobalAfter(rs, g, s) == IF rs = None THEN s ELSE g

Swap(x, i, j) == [x EXCEPT ![i] = x[j], ![j] = x[i]]

\* RandomState.shuffle on a 1-d array: for i in reversed(range(1, n)):
\* j = random_interval(i); x[i], x[j] = x[j], x[i]   (i, j 0-based).
RECURSIVE ShuffleFrom(_, _, _)
ShuffleFrom(x, i, s) ==
  IF i < 1 THEN [arr |-> x, rng |-> s]
  ELSE LET s2 == RngNext(s)
           j  == s2 % (i + 1)
       IN ShuffleFrom(Swap(x, i + 1, j + 1), i - 1, s2)

Shuffle(x, s) == ShuffleFrom(x, Len(x) - 1, s)

\* data.sample(frac=1, random_state=...).reset_index(drop=True): the table
\* after the shuffle, as the sequence of original row numbers; position p of
\* the result (0-based p - 1) holds original row perm[p].
Sample(n, s) == Shuffle(Arange(n), s)

\* ------------------------------------------------------------------ bins
\* floor(log2(n)) for n >= 1.
RECURSIVE FloorLog2(_)
FloorLog2(n) == IF n <= 1 THEN 0 ELSE 1 + FloorLog2(n \div 2)

\* int(np.floor(1 + np.log2(len(data))))
NumBins(n) == 1 + FloorLog2(n)

\* pd.cut(x, bins=nb, labels=False) of one value v, for targets spanning
\* mn..mx: nb equal-width intervals over [mn, mx], each open on the left and
\* closed on the right (pandas' default right=True), the first one widened
\* downwards by 0.1% of the range so that mn falls into it.  When mn = mx
\* pandas widens the range by 0.1% on both sides and every value sits at
\* its middle: the bin holding the middle, right-closed.
\* (Variant: intervals closed on the left and open on the right, the last
\* one closed on both ends.)
CutLabelLeftClosed(v, mn, mx, nb) ==
  IF mn = mx THEN (nb - 1) \div 2
  ELSE IF v = mx THEN nb - 1
  ELSE Max({i \in 0..(nb - 1) : i * (mx - mn) <= (v - mn) * nb})
CutLabel(v, mn, mx, nb) ==
  IF mn = mx THEN (nb - 1) \div 2
  ELSE Min({i \in 0..(nb - 1) : (v - mn) * nb <= (i + 1) * (mx - mn)})

\* pd.cut(y, bins=num_bins, labels=False): the labels in the order of y.
Cut(yy, nb) ==
  LET mn == Min(Range(yy))
      mx == Max(Range(yy))
  IN [i \in DOMAIN yy |-> CutLabel(yy[i], mn, mx, nb)]

\* ------------------------------------------------------- StratifiedKFold
\* Number of positions of s holding c.
Count(s, c) == Cardinality({i \in DOMAIN s : s[i] = c})

\* The classes of labels in order of first appearance (y_encoded's coding).
RECURSIVE ClassesInOrder(_, _)
ClassesInOrder(labels, seen) ==
  IF labels = <<>> THEN <<>>
  ELSE IF Head(labels) \in seen THEN ClassesInOrder(Tail(labels), seen)
  ELSE <<Head(labels)>> \o ClassesInOrder(Tail(labels), seen \cup {Head(labels)})

\* y_order = np.sort(y_encoded): class c (c-th in order of appearance,
\* 1-based) fills the sorted positions Offset(c)+1 .. Offset(c)+count(c).
RECURSIVE Offset(_, _, _)
Offset(labels, classes, c) ==
  IF c <= 1 THEN 0
  ELSE Offset(labels, classes, c - 1) + Count(labels, classes[c - 1])

\* allocation[f][c] = np.bincount(y_order[f::n_splits])[c]: how many of the
\* sorted positions of class c are congruent to f modulo n_splits
\* (f 0-based, sorted positions 0-based).
\* (Variant: no round robin, the whole class goes to the first fold.)
AllocationFirstFold(labels, classes, k, f, c) ==
  IF f = 0 THEN Count(labels, classes[c]) ELSE 0
Allocation(labels, classes, k, f, c) ==
  LET lo == Offset(labels, classes, c)
      hi == lo + Count(labels, classes[c]) - 1
  IN Cardinality({p \in lo..hi : p % k = f})

\* np.arange(n_splits).repeat(allocation[:, c])
RECURSIVE Repeat(_, _, _, _, _)
Repeat(labels, classes, k, c, f) ==
  IF f >= k THEN <<>>
  ELSE [i \in 1..Allocation(labels, classes, k, f, c) |-> f]
       \o Repeat(labels, classes, k, c, f + 1)

\* test_folds[y_encoded == c] = folds_for_class: the positions of class c,
\* ascending, receive the entries of folds in order.
Scatter(test_folds, labels, cls, folds) ==
  LET pos == Ascending({i \in DOMAIN labels : labels[i] = cls})
  IN [i \in DOMAIN test_folds |->
        IF labels[i] = cls
        THEN folds[CHOOSE q \in DOMAIN pos : pos[q] = i]
        ELSE test_folds[i]]

\* The loop over the classes of _make_test_folds, shuffle=True: each class's
\* block of fold numbers is shuffled with the one generator, class after
\* class.
RECURSIVE MakeTestFoldsFrom(_, _, _, _, _, _)
MakeTestFoldsFrom(labels, classes, k, c, test_folds, s) ==
  IF c > Len(classes) THEN [arr |-> test_folds, rng |-> s]
  ELSE LET sh == Shuffle(Repeat(labels, classes, k, c, 0), s)
       IN MakeTestFoldsFrom(labels, classes, k, c + 1,
                            Scatter(test_folds, labels, classes[c], sh.arr),
                            sh.rng)

MakeTestFolds(labels, k, s) ==
  MakeTestFoldsFrom(labels, ClassesInOrder(labels, {}), k, 1,
                    [i \in DOMAIN labels |-> -1], s)

\* BaseCrossValidator.split: for each fold f the (train, test) index arrays,
\* 0-based row positions in ascending order.
\* (Variant: fold f's test mask is test_folds <= f instead of == f.)
SplitsOfCumulative(test_folds, k) ==
  [f \in 1..k |->
     [train |-> Ascending({i - 1 : i \in {j \in DOMAIN test_folds : test_folds[j] > f - 1}}),
      val   |-> Ascending({i - 1 : i \in {j \in DOMAIN test_folds : test_folds[j] <= f - 1}})]]
\* (Variant: the train indices are not masked by logical_not(test).)
SplitsOfTrainAll(test_folds, k) ==
  [f \in 1..k |->
     [train |-> Ascending({i - 1 : i \in DOMAIN test_folds}),
      val   |-> Ascending({i - 1 : i \in {j \in DOMAIN test_folds : test_folds[j] = f - 1}})]]
SplitsOf(test_folds, k) ==
  [f \in 1..k |->
     [train |-> Ascending({i - 1 : i \in {j \in DOMAIN test_folds : test_folds[j] # f - 1}}),
      val   |-> Ascending({i - 1 : i \in {j \in DOMAIN test_folds : test_folds[j] = f - 1}})]]

\* ----------------------------------------------------------- create_folds
Raised(err, perm, g) ==
  [raised |-> err, splits |-> <<>>, bins |-> <<>>, perm |-> perm, rng |-> g]

\* create_folds(data, y, n_splits, random_state) on a table of Len(yy) rows
\* with the global generator in state g.  The result records what the call
\* raised ("none": it returned), the returned splits, the bins column, the
\* shuffled table and the global generator's state afterwards.
create_folds(yy, k, rs, g) ==
  LET n   == Len(yy)
      sh  == Sample(n, RandomStateOf(rs, g))
      g1  == GlobalAfter(rs, g, sh.rng)
  IN IF n = 0 THEN Raised("OverflowError", sh.arr, g1)   \* int(floor(-inf))
     ELSE
     LET bins    == Cut(yy, NumBins(n))
         classes == ClassesInOrder(bins, {})
     IN IF k <= 1 THEN Raised("ValueError", sh.arr, g1)  \* StratifiedKFold(n_splits)
        ELSE IF k > n THEN Raised("ValueError", sh.arr, g1)  \* n_splits > n_samples
        ELSE IF \A c \in DOMAIN classes : k > Count(bins, classes[c])
             THEN Raised("ValueError", sh.arr, g1)  \* n_splits > every class
        ELSE LET tf == MakeTestFolds(bins, k, RandomStateOf(rs, g1))
             IN [raised |-> "none",
                 splits |-> SplitsOf(tf.arr, k),
                 bins   |-> bins,
                 perm   |-> sh.arr,
                 rng    |-> GlobalAfter(rs, g1, tf.rng)]

\* ------------------------------------------------------------ the machine
NoCall == [raised |-> "nocall"]

NetflixOff ==
  /\ es = <<>> /\ ps = <<>> /\ e0 = 0 /\ l = 0 /\ truth = <<>>
  /\ npc = "off" /\ nout = [raised |-> "nocall"] /\ noutD = [raised |-> "nocall"]

PredictOff ==
  /\ dataset_paths = <<>> /\ mpaths = <<>> /\ oof_paths = <<>>
  /\ oofs = <<>> /\ df = <<>> /\ mpc = "off" /\ mi = 0
  /\ mout = [raised |-> "nocall"]

Init ==
  /\ NetflixOff
  /\ PredictOff
  /\ y \in SeqsUpTo(0..MaxTarget, 0, MaxN)
  /\ n_splits \in 1..MaxSplits
  /\ random_state \in RandomStates
  /\ globalRng \in RngStates
  /\ pc = "idle"
  /\ out1 = NoCall
  /\ out2 = NoCall

\* The first call of create_folds on the inputs.
FirstCall ==
  /\ pc = "idle"
  /\ out1' = create_folds(y, n_splits, random_state, globalRng)
  /\ globalRng' = out1'.rng
  /\ pc' = "once"
  /\ UNCHANGED <<y, n_splits, random_state, out2, netflixVars, predictVars>>

\* Any other user of the global np.random generator drawing a number
\* between the two calls.
OtherRandomUse ==
  /\ pc = "once"
  /\ globalRng' = RngNext(globalRng)
  /\ pc' = "drawn"
  /\ UNCHANGED <<y, n_splits, random_state, out1, out2, netflixVars, predictVars>>

\* A second call with the same data, targets, n_splits and random_state.
SecondCall ==
  /\ pc \in {"once", "drawn"}
  /\ out2' = create_folds(y, n_splits, random_state, globalRng)
  /\ globalRng' = out2'.rng
  /\ pc' = "twice"
  /\ UNCHANGED <<y, n_splits, random_state, out1, netflixVars, predictVars>>

Next == FirstCall \/ OtherRandomUse \/ SecondCall

Spec == Init /\ [][Next]_vars

\* ------------------------------------------------------- exact arithmetic
\* Real numbers are exact fractions [n, d] in lowest terms with d > 0.
RECURSIVE GCD(_, _)
GCD(a, b) == IF b = 0 THEN a ELSE GCD(b, a % b)

FracBy(n, d, g) ==
  IF d < 0 THEN [n |-> -(n \div g), d |-> -(d \div g)]
  ELSE [n |-> n \div g, d |-> d \div g]
Frac(n, d) == FracBy(n, d, GCD(Abs(n), Abs(d)))
RInt(i) == [n |-> i, d |-> 1]
Zero == RInt(0)
One == RInt(1)
Half == Frac(1, 2)
RAdd(a, b) ==
  IF a.d = b.d THEN Frac(a.n + b.n, a.d)
  ELSE Frac(a.n * b.d + b.n * a.d, a.d * b.d)
RNeg(a) == [n |-> -a.n, d |-> a.d]
RSub(a, b) == RAdd(a, RNeg(b))
RMul(a, b) == Frac(a.n * b.n, a.d * b.d)
RDiv(a, b) == Frac(a.n * b.d, a.d * b.n)
RLe(a, b) == a.n * b.d <= b.n * a.d
RAbs(a) == [n |-> Abs(a.n), d |-> a.d]

RECURSIVE RSum(_)
RSum(s) == IF s = <<>> THEN Zero ELSE RAdd(Head(s), RSum(Tail(s)))

\* A score (an RMSE) is c * sqrt(r) with c a fraction and r a squarefree
\* natural, so that the square root of a fraction is exact.
Surd(c, r) == [c |-> c, r |-> r]
\* x ** 2 of a score.
Squared(x) == RMul(RMul(x.c, x.c), RInt(x.r))
\* The largest a with a * a dividing k (k >= 1).
SquarePart(k) == Max({a \in 1..k : k % (a * a) = 0})
\* np.sqrt(q) for a fraction q >= 0: sqrt(n/d) = sqrt(n*d)/d.
Sqrt(q) ==
  IF q.n = 0 THEN Surd(Zero, 1)
  ELSE LET k == q.n * q.d
           a == SquarePart(k)
       IN Surd(Frac(a, q.d), k \div (a * a))

\* ---------------------------------------------------------------- matrices
\* A d x d matrix is a sequence of d rows of d fractions.  Arr makes the
\* array of a function over 1..n (the same value, held as a sequence).
Arr(f) == f \o <<>>
MatMul(A, B, d) ==
  Arr([i \in 1..d |->
        Arr([j \in 1..d |-> RSum(Arr([k \in 1..d |-> RMul(A[i][k], B[k][j])]))])])
MatScale(c, A, d) == Arr([i \in 1..d |-> Arr([j \in 1..d |-> RMul(c, A[i][j])])])
MatAddDiag(A, c, d) ==
  Arr([i \in 1..d |->
        Arr([j \in 1..d |-> IF i = j THEN RAdd(A[i][j], c) ELSE A[i][j]])])
Trace(A, d) == RSum(Arr([i \in 1..d |-> A[i][i]]))
Eye(d) == Arr([i \in 1..d |-> Arr([j \in 1..d |-> IF i = j THEN One ELSE Zero])])
Zeros(d) == Arr([i \in 1..d |-> Arr([j \in 1..d |-> Zero])])
MatVec(A, v, rows, cols) ==
  Arr([i \in 1..rows |-> RSum(Arr([k \in 1..cols |-> RMul(A[i][k], v[k])]))])

\* The Faddeev-LeVerrier recurrence for the characteristic polynomial
\* x^d + c_1 x^(d-1) + ... + c_d of A: M_1 = I, c_k = -tr(A M_k)/k,
\* M_(k+1) = A M_k + c_k I.  Returns the pairs (M_k, c_k), k = 1..d.
RECURSIVE CharPoly(_, _, _, _)
CharPolyStep(A, d, k, M, AM, c) ==
  <<[M |-> M, c |-> c]>> \o CharPoly(A, d, k + 1, MatAddDiag(AM, c, d))
CharPolyTrace(A, d, k, M, AM) ==
  CharPolyStep(A, d, k, M, AM, RDiv(RNeg(Trace(AM, d)), RInt(k)))
CharPoly(A, d, k, M) ==
  IF k > d THEN <<>> ELSE CharPolyTrace(A, d, k, M, MatMul(A, M, d))

\* The Moore-Penrose inverse of a symmetric A from its recurrence cp: with r
\* the rank (the last k with c_k # 0), Q = -M_r / c_r inverts A on its
\* range, and the inverse is Q A Q (Q itself when A is regular); the zero
\* matrix has the zero matrix, the empty matrix the empty one.
RegularPart(cp, r, d) == MatScale(RDiv(RInt(-1), cp[r].c), cp[r].M, d)
Sandwich(Q, A, d) == MatMul(MatMul(Q, A, d), Q, d)
PinvOfRank(cp, A, d, nz) ==
  IF nz = {} THEN Zeros(d)
  ELSE IF d \in nz THEN RegularPart(cp, d, d)
  ELSE Sandwich(RegularPart(cp, Max(nz), d), A, d)
PinvOf(cp, A, d) == PinvOfRank(cp, A, d, {k \in 1..d : cp[k].c # Zero})

\* np.linalg.pinv(A) for a symmetric A, exactly.
Pinv(A, d) == PinvOf(CharPoly(A, d, 1, Eye(d)), A, d)

\* ----------------------------------------------------------------- netflix
NRaised(err) == [raised |-> err, pred |-> <<>>, w |-> <<>>, pTy |-> <<>>]

\* (X ** 2).sum(axis=0)[j] and (X.T.dot(X))[i][j] for X = np.stack(ps).T.
Gram(pp, i, j) == SeqSum(Arr([k \in DOMAIN pp[i] |-> pp[i][k] * pp[j][k]]))

\* numpy broadcasts an array of length 1 (an identity matrix of size 1)
\* against one of another length: its single entry stands at every index.
Bcast(len, i) == IF len = 1 THEN 1 ELSE i

\* The ridge term the source adds to X.T.dot(X): l * n * np.eye(m).
\* (Variant: l alone, not scaled by n.)
RidgeUnscaled(ll, n) == ll
Ridge(ll, n) == RMul(ll, RInt(n))

\* pTy[j] = 0.5 * (n * e0 ** 2 + (X ** 2).sum(axis=0)[j] - n * es[j] ** 2)
\* (Variant: the factor 0.5 is missing.)
CrossTermNoHalf(n, e0sq, colsq, esq) ==
  RSub(RAdd(RMul(RInt(n), e0sq), RInt(colsq)), RMul(RInt(n), esq))
\* (Variant: the scores' term is added, not subtracted.)
CrossTermPlus(n, e0sq, colsq, esq) ==
  RMul(Half, RAdd(RAdd(RMul(RInt(n), e0sq), RInt(colsq)), RMul(RInt(n), esq)))
CrossTerm(n, e0sq, colsq, esq) ==
  RMul(Half, RSub(RAdd(RMul(RInt(n), e0sq), RInt(colsq)), RMul(RInt(n), esq)))

\* The vector pTy, of the length d that numpy's broadcasting of the mp
\* column sums against the m scores gives.
CrossTerms(ees, pp, ee0, n, m, mp, d) ==
  Arr([j \in 1..d |->
        CrossTerm(n, Squared(ee0), Gram(pp, Bcast(mp, j), Bcast(mp, j)),
                  Squared(ees[Bcast(m, j)]))])

\* X.T.dot(X) + l * n * np.eye(m), d x d after broadcasting (np.eye(1) is
\* added to every entry).
Regularized(pp, ll, n, m, mp, d) ==
  Arr([i \in 1..d |-> Arr([j \in 1..d |->
        RAdd(RInt(Gram(pp, Bcast(mp, i), Bcast(mp, j))),
             IF m = 1 \/ i = j THEN Ridge(ll, n) ELSE Zero)])])

\* return X.dot(w), w
Returns(pp, n, mp, w, pTy) ==
  [raised |-> "none",
   pred   |-> Arr([i \in 1..n |->
                    RSum(Arr([j \in 1..mp |-> RMul(RInt(pp[j][i]), w[j])]))]),
   w      |-> w,
   pTy    |-> pTy]

Solve(pp, n, mp, d, A, pTy) ==
  IF d # mp THEN NRaised("ValueError")                        \* X.dot(w)
  ELSE Returns(pp, n, mp, MatVec(Pinv(A, d), pTy, d, d), pTy)

\* netflix(es, ps, e0, l): what it raises ("none": it returns), the blended
\* prediction X.dot(w), the weights w, and the cross terms pTy.
netflix(ees, pp, ee0, ll) ==
  LET m  == Len(ees)
      mp == Len(pp)
  IN IF mp = 0 THEN NRaised("IndexError")                      \* ps[0]
     ELSE IF \E j \in DOMAIN pp : Len(pp[j]) # Len(pp[1])
     THEN NRaised("ValueError")                                \* np.stack
     ELSE IF ~(m = mp \/ m = 1 \/ mp = 1)
     THEN NRaised("ValueError")                                \* (mp,) - (m,)
     ELSE LET n == Len(pp[1])
              d == IF m = mp THEN m ELSE IF m = 1 THEN mp ELSE m
          IN Solve(pp, n, mp, d,
                   Regularized(pp, ll, n, m, mp, d),
                   CrossTerms(ees, pp, ee0, n, m, mp, d))

\* np.sqrt(mean_squared_error(p, t)) as make_predictions computes each score.
RMSE(p, t) ==
  Sqrt(Frac(SeqSum([i \in DOMAIN p |-> (p[i] - t[i]) * (p[i] - t[i])]), Len(p)))

\* ------------------------------------------------------- netflix's machine
PredValues == {0, 1}
TruthValues == {-1, 2}
ScoreValues == {Surd(Zero, 1), Surd(One, 1)}
BaselineValues == {Surd(One, 1)}
Lambdas == {Zero, Frac(1, 2)}

\* Scores, predictions, baseline and lambda handed over as they are.
InitGiven ==
  /\ ps \in SeqsUpTo(SeqsUpTo(PredValues, 0, MaxLen), 0, MaxM)
  /\ es \in SeqsUpTo(ScoreValues, 0, MaxM)
  /\ e0 \in BaselineValues
  /\ truth = <<>>

\* Scores measured against a ground truth, as make_predictions measures
\* them, with e0 the RMSE of the all-zero prediction.
InitScored ==
  /\ \E n \in 1..MaxLen :
       /\ truth \in [1..n -> TruthValues]
       /\ ps \in SeqsUpTo([1..n -> PredValues], 1, MaxM)
  /\ es = [j \in DOMAIN ps |-> RMSE(ps[j], truth)]
  /\ e0 = RMSE([i \in DOMAIN truth |-> 0], truth)

FoldsOff ==
  /\ y = <<>> /\ n_splits = 0 /\ random_state = None /\ globalRng = 0
  /\ pc = "off" /\ out1 = [raised |-> "nocall"] /\ out2 = [raised |-> "nocall"]

InitNetflix ==
  /\ InitGiven \/ InitScored
  /\ l \in Lambdas
  /\ npc = "idle"
  /\ nout = NRaised("nocall")
  /\ noutD = NRaised("nocall")
  /\ FoldsOff
  /\ PredictOff

\* The call netflix(es, ps, e0, l).
NetflixCall ==
  /\ npc = "idle"
  /\ nout' = netflix(es, ps, e0, l)
  /\ npc' = "called"
  /\ UNCHANGED <<es, ps, e0, l, truth, noutD, foldVars, predictVars>>

\* Every prediction vector concatenated with itself.
Doubled(pp) == [j \in DOMAIN pp |-> pp[j] \o pp[j]]

\* The call on the doubled data, es, e0 and l unchanged.
DoubledCall ==
  /\ npc = "called"
  /\ noutD' = netflix(es, Doubled(ps), e0, l)
  /\ npc' = "doubled"
  /\ UNCHANGED <<es, ps, e0, l, truth, nout, foldVars, predictVars>>

NextNetflix == NetflixCall \/ DoubledCall

SpecNetflix == InitNetflix /\ [][NextNetflix]_vars

\* ------------------------------------------------------- make_predictions
\* A file under a dataset path: the path's position in dataset_paths
\* (1-based) and the file's rank in the sorted listing.
File(i, f) == [path |-> i, file |-> f]

\* sorted(list(p.rglob("*.ckpt"))) and sorted(list(p.glob("*.csv"))) for
\* the path at position i holding k such files.
Listing(i, k) == [f \in 1..k |-> File(i, f)]

\* The outcome of make_predictions: what it raised ("none": it wrote the
\* submission) and, for every blend weight, the path whose OOF column the
\* weight was solved from and the path whose test column it multiplies.
Predicted(err, blend) == [raised |-> err, blend |-> blend]

\* The column model_i of a frame stands at position i + 1 of its sequence.
HasColumn(frame, c) == c \in DOMAIN frame

InitPredict ==
  /\ dataset_paths \in
       SeqsUpTo([csvs : 0..MaxCsvs, ckpts : 0..MaxCkpts], 0, MaxPaths)
  /\ mpaths = <<>>
  /\ oof_paths = <<>>
  /\ oofs = <<>>
  /\ df = <<>>
  /\ mpc = "scan"
  /\ mi = 1
  /\ mout = [raised |-> "nocall"]
  /\ FoldsOff
  /\ NetflixOff

\* One turn of "for p in dataset_paths": the path's checkpoints are
\* appended as one group, its OOF files are added one by one.
ScanPath ==
  /\ mpc = "scan"
  /\ mi \in DOMAIN dataset_paths
  /\ mpaths' = Append(mpaths, Listing(mi, dataset_paths[mi].ckpts))
  /\ oof_paths' = oof_paths \o Listing(mi, dataset_paths[mi].csvs)
  /\ mi' = mi + 1
  /\ UNCHANGED <<dataset_paths, oofs, df, mpc, mout, foldVars, netflixVars>>

\* oofs = pd.read_csv(train.csv, usecols=["id", "target"]): no model column.
ReadTrain ==
  /\ mpc = "scan"
  /\ mi \notin DOMAIN dataset_paths
  /\ oofs' = <<>>
  /\ mpc' = "oofs"
  /\ mi' = 1
  /\ UNCHANGED <<dataset_paths, mpaths, oof_paths, df, mout, foldVars,
                 netflixVars>>

\* One turn of "for i, p in enumerate(oof_paths)": the file's predictions
\* become the column model_i of oofs (every OOF file holds one prediction
\* for every row of train.csv).
ReadOof ==
  /\ mpc = "oofs"
  /\ mi \in DOMAIN oof_paths
  /\ oofs' = Append(oofs, oof_paths[mi].path)
  /\ mi' = mi + 1
  /\ UNCHANGED <<dataset_paths, mpaths, oof_paths, df, mpc, mout, foldVars,
                 netflixVars>>

\* df = pd.read_csv(test.csv): no model column.
ReadTest ==
  /\ mpc = "oofs"
  /\ mi \notin DOMAIN oof_paths
  /\ df' = <<>>
  /\ mpc' = "infer"
  /\ mi' = 1
  /\ UNCHANGED <<dataset_paths, mpaths, oof_paths, oofs, mout, foldVars,
                 netflixVars>>

\* One turn of "for i, group in enumerate(mpaths)": the mean of the
\* group's checkpoints' predictions becomes the column model_i of df.  For
\* an empty group output is still the integer 0, which has no squeeze().
InferGroup ==
  /\ mpc = "infer"
  /\ mi \in DOMAIN mpaths
  /\ IF Len(mpaths[mi]) = 0
     THEN /\ mout' = Predicted("AttributeError", <<>>)
          /\ mpc' = "raised"
          /\ UNCHANGED <<df, mi>>
     ELSE /\ df' = Append(df, mpaths[mi][1].path)
          /\ mi' = mi + 1
          /\ UNCHANGED <<mpc, mout>>
  /\ UNCHANGED <<dataset_paths, mpaths, oof_paths, oofs, foldVars, netflixVars>>

\* The stacking: weight i is solved from oofs' column model_i and multiplies
\* df's column model_i, for i below len(mpaths).  The OOF columns all have
\* the length of train.csv and there are as many scores as columns, so
\* netflix raises only when there is no column at all.
Stack ==
  /\ mpc = "infer"
  /\ mi \notin DOMAIN mpaths
  /\ LET pred_cols == 1..Len(mpaths)
     IN IF \E c \in pred_cols : ~HasColumn(oofs, c)
        THEN /\ mout' = Predicted("KeyError", <<>>)          \* oofs[c]
             /\ mpc' = "raised"
        ELSE IF pred_cols = {}
        THEN /\ mout' = Predicted(
                  netflix(<<>>, <<>>, Surd(Frac(141, 100), 1),
                          Frac(1, 10000)).raised, <<>>)
             /\ mpc' = "raised"
        ELSE /\ mout' = Predicted("none",
                  [c \in pred_cols |-> [weightFrom |-> oofs[c],
                                        appliedTo  |-> df[c]]])
             /\ mpc' = "done"
  /\ UNCHANGED <<dataset_paths, mpaths, oof_paths, oofs, df, mi, foldVars,
                 netflixVars>>

NextPredict == ScanPath \/ ReadTrain \/ ReadOof \/ ReadTest \/ InferGroup \/ Stack

SpecPredict == InitPredict /\ [][NextPredict]_vars

\* ------------------------------------------------- properties: create_folds
Returned(o) == o.raised = "none"
Calls == {out1, out2}
Indices == 0..(Len(y) - 1)

\* How many times index i occurs in the validation arrays of o's splits.
ValOccurrences(o, i) ==
  SeqSum([f \in DOMAIN o.splits |-> Count(o.splits[f].val, i)])

\* C1: whenever create_folds returns, it returns n_splits pairs and every
\* index of 0..N-1 occurs in the validation array of exactly one of them,
\* exactly once; the validation arrays hold nothing else.
C1_FoldCoverage ==
  \A o \in Calls : Returned(o) =>
    /\ Len(o.splits) = n_splits
    /\ \A i \in Indices : ValOccurrences(o, i) = 1
    /\ \A f \in DOMAIN o.splits : Range(o.splits[f].val) \subseteq Indices

IsIdentity(perm) == \A i \in DOMAIN perm : perm[i] = i - 1

C1_Witness ==
  /\ Returned(out1)
  /\ Len(y) >= 4
  /\ n_splits >= 3
  /\ ~IsIdentity(out1.perm)
  /\ \E f \in DOMAIN out1.splits : Len(out1.splits[f].val) >= 2

\* C2: in every returned pair the train and validation arrays are disjoint,
\* hold no index twice, and together hold exactly 0..N-1.
C2_PairPartitions ==
  \A o \in Calls : Returned(o) =>
    \A f \in DOMAIN o.splits :
      LET t == o.splits[f].train
          v == o.splits[f].val
      IN /\ Range(t) \cap Range(v) = {}
         /\ Range(t) \cup Range(v) = Indices
         /\ Len(t) + Len(v) = Len(y)

C2_Witness ==
  /\ Returned(out1)
  /\ Len(y) >= 3
  /\ \E f \in DOMAIN out1.splits :
       /\ Len(out1.splits[f].train) >= 2
       /\ out1.splits[f].val # <<>>
       /\ out1.splits[f].train[1] > out1.splits[f].val[1]

\* C3: two calls with the same data, targets, n_splits and the same integer
\* seed end alike: both raise the same error or both return the same
\* sequence of (train, validation) pairs, whatever the global generator did
\* in between.
C3_SeededDeterminism ==
  (pc = "twice" /\ random_state # None) =>
    /\ out1.raised = out2.raised
    /\ out1.splits = out2.splits
    /\ out1.perm = out2.perm

C3_Witness ==
  /\ pc = "twice"
  /\ random_state \in Seeds
  /\ Returned(out1)
  /\ Returned(out2)
  /\ Len(y) >= 3
  /\ ~IsIdentity(out1.perm)
  /\ globalRng # Seeded(random_state)

\* The bins column create_folds computes for the targets y (N >= 1).
Strata == Cut(y, NumBins(Len(y)))

\* C9 (the claim as stated): whenever some stratum has fewer members than
\* n_splits, create_folds raises and returns no folds.
C9_SmallStratumRaises ==
  \A o \in Calls :
    (/\ o # NoCall
     /\ Len(y) >= 1
     /\ \E c \in Range(Strata) : Count(Strata, c) < n_splits)
    => ~Returned(o)

\* C9, its second half as stated: no returned fold assignment has a stratum
\* that is absent from some validation array.
C9_NoStratumAbsent ==
  \A o \in Calls : Returned(o) =>
    \A c \in Range(o.bins) : \A f \in DOMAIN o.splits :
      \E q \in DOMAIN o.splits[f].val : o.bins[o.splits[f].val[q] + 1] = c

\* Members of stratum c in the validation array of fold f.
StratumInFold(o, c, f) ==
  Cardinality({q \in DOMAIN o.splits[f].val : o.bins[o.splits[f].val[q] + 1] = c})

\* C10: for every stratum and every returned fold, the stratum's count in
\* the fold's validation array is within one of (stratum size / n_splits),
\* and the counts of two folds differ by at most one.
C10_StratumBalance ==
  \A o \in Calls : Returned(o) =>
    \A c \in Range(o.bins) :
      /\ \A f \in DOMAIN o.splits :
           Abs(n_splits * StratumInFold(o, c, f) - Count(o.bins, c)) <= n_splits
      /\ \A f, h \in DOMAIN o.splits :
           Abs(StratumInFold(o, c, f) - StratumInFold(o, c, h)) <= 1

C10_Witness ==
  /\ Returned(out1)
  /\ Cardinality(Range(out1.bins)) >= 2
  /\ \E c \in Range(out1.bins) :
       /\ Count(out1.bins, c) >= 3
       /\ Count(out1.bins, c) % n_splits # 0
       /\ \E f, h \in DOMAIN out1.splits :
            StratumInFold(out1, c, f) # StratumInFold(out1, c, h)

\* The number of bins the claims speak of: floor(1 + log2(N)), the b with
\* 2^(b-1) <= N < 2^b.
BinCount == CHOOSE b \in 1..(Len(y) + 1) : 2^(b - 1) <= Len(y) /\ Len(y) < 2^b
Lowest == Min(Range(y))
Highest == Max(Range(y))

\* Target v lies on the boundary between bins j-1 and j, 1 <= j <= BinCount-1.
OnBoundary(v, j) ==
  /\ j \in 1..(BinCount - 1)
  /\ (v - Lowest) * BinCount = j * (Highest - Lowest)

\* C12 (the claim as stated): the targets are binned into floor(1+log2(N))
\* equal-width intervals over [min, max], each closed on the left and open
\* on the right, the last one closed on both ends: a target on an interior
\* boundary gets the upper bin's label and the maximum gets the last label.
C12_LeftClosedBins ==
  \A o \in Calls : (Returned(o) /\ Lowest < Highest) =>
    \A i \in DOMAIN y :
      LET b == o.bins[i]
          u == (y[i] - Lowest) * BinCount
          w == Highest - Lowest
      IN /\ b \in 0..(BinCount - 1)
         /\ \/ y[i] = Highest /\ b = BinCount - 1
            \/ b * w <= u /\ u < (b + 1) * w

\* C12 (amended): the targets are binned into floor(1+log2(N)) equal-width
\* intervals over [min, max], each open on the left and closed on the
\* right, the first one also holding the minimum: a target on an interior
\* boundary gets the lower bin's label, the minimum gets label 0 and the
\* maximum the last label.  When all targets are equal they all get one
\* label.
C12_RightClosedBins ==
  \A o \in Calls : Returned(o) =>
    /\ Len(o.bins) = Len(y)
    /\ \A i \in DOMAIN y :
         LET b == o.bins[i]
             u == (y[i] - Lowest) * BinCount
             w == Highest - Lowest
         IN /\ b \in 0..(BinCount - 1)
            /\ Lowest < Highest =>
                 /\ \/ y[i] = Lowest /\ b = 0
                    \/ b * w < u /\ u <= (b + 1) * w
                 /\ \A j \in 1..(BinCount - 1) : OnBoundary(y[i], j) => b = j - 1
                 /\ y[i] = Highest => b = BinCount - 1
            /\ Lowest = Highest => b = o.bins[1]

C12_Witness ==
  /\ Returned(out1)
  /\ \E i \in DOMAIN y : \E j \in 1..(BinCount - 1) :
       /\ OnBoundary(y[i], j)
       /\ out1.bins[i] = j - 1
  /\ \E i \in DOMAIN y : y[i] = Highest /\ out1.bins[i] = BinCount - 1
  /\ \E i \in DOMAIN y : y[i] = Lowest /\ out1.bins[i] = 0

\* The target of the row that o's shuffle placed at position p (1-based).
ShuffledTarget(o, p) == y[o.perm[p] + 1]

\* C13 (the claim as stated): the stratum label used for position i of the
\* shuffled table is the bin of the target of the row the shuffle placed at
\* position i.
C13_StrataFollowShuffle ==
  \A o \in Calls : Returned(o) =>
    \A p \in DOMAIN o.bins :
      o.bins[p] = CutLabel(ShuffledTarget(o, p), Lowest, Highest, BinCount)

\* ------------------------------------------------------ properties: netflix
NReturned(o) == o.raised = "none"
NCalled(o) == o.raised # "nocall"
SumSq(p) == SeqSum(Arr([i \in DOMAIN p |-> p[i] * p[i]]))
Dot(p, q) == SeqSum(Arr([i \in DOMAIN p |-> p[i] * q[i]]))
SingleModelAtBaseline ==
  /\ NReturned(nout)
  /\ Len(es) = 1
  /\ Len(ps) = 1
  /\ Squared(es[1]) = Squared(e0)
  /\ SumSq(ps[1]) > 0

\* C4 (the claim as stated), with "converges as lambda tends to 0" read as
\* a bound that vanishes with lambda: for one model whose RMSE equals e0,
\* |w - 1| <= l*n/sum(p^2), so w = 1 and the blend is p at l = 0.
C4_WeightTendsToOne ==
  SingleModelAtBaseline =>
    /\ RLe(RAbs(RSub(nout.w[1], One)),
           RDiv(RMul(l, RInt(Len(ps[1]))), RInt(SumSq(ps[1]))))
    /\ (l = Zero => nout.pred = Arr([i \in DOMAIN ps[1] |-> RInt(ps[1][i])]))

\* C4 (amended): for one model whose RMSE equals e0 and whose prediction
\* vector is not all zero, w = sum(p^2) / (2*(sum(p^2) + l*n)), hence
\* |w - 1/2| <= l*n/(2*sum(p^2)): the weight converges to 1/2, and is 1/2 at
\* l = 0; the blend is w times the input prediction.
C4_WeightTendsToHalf ==
  SingleModelAtBaseline =>
    LET n  == Len(ps[1])
        ss == RInt(SumSq(ps[1]))
        ln == RMul(l, RInt(n))
    IN /\ nout.w[1] = RDiv(ss, RMul(RInt(2), RAdd(ss, ln)))
       /\ RLe(RAbs(RSub(nout.w[1], Half)), RDiv(ln, RMul(RInt(2), ss)))
       /\ nout.pred = Arr([i \in DOMAIN ps[1] |-> RMul(nout.w[1], RInt(ps[1][i]))])

C4_Witness ==
  /\ SingleModelAtBaseline
  /\ l = Zero
  /\ SumSq(ps[1]) >= 2
  /\ nout.w = <<Half>>
  /\ nout.pred # Arr([i \in DOMAIN ps[1] |-> RInt(ps[1][i])])

\* C5: the call on the doubled prediction vectors, with es, e0 and l
\* unchanged, ends as the call on the original ones does and, when they
\* return, returns the same weight vector.
C5_DoublingKeepsWeights ==
  npc = "doubled" =>
    /\ noutD.raised = nout.raised
    /\ noutD.w = nout.w

C5_Witness ==
  /\ npc = "doubled"
  /\ NReturned(nout)
  /\ NReturned(noutD)
  /\ Len(ps) = 2
  /\ Len(es) = 2
  /\ Len(ps[1]) = 2
  /\ l # Zero
  /\ nout.w[1] # nout.w[2]
  /\ nout.w[1] # Zero

\* C6: when the scores are the RMSEs of the predictions against a ground
\* truth t and e0 ** 2 is mean(t ** 2), the cross term netflix computes for
\* each prediction vector p is sum(p * t), in exact arithmetic.
C6_CrossTermIsDotProduct ==
  (truth # <<>> /\ NReturned(nout)) =>
    \A j \in DOMAIN ps : nout.pTy[j] = RInt(Dot(ps[j], truth))

C6_Witness ==
  /\ truth # <<>>
  /\ NReturned(nout)
  /\ Len(ps) = 2
  /\ Len(truth) = 2
  /\ es[1] # es[2]
  /\ es[1].r # 1
  /\ \E i \in DOMAIN truth : truth[i] < 0
  /\ nout.pTy[1] # Zero
  /\ nout.pTy[1] # nout.pTy[2]

Ragged(pp) == \E i, j \in DOMAIN pp : Len(pp[i]) # Len(pp[j])

\* C7 (the claim as stated): netflix raises whenever the prediction
\* vectors differ in length or the number of scores is not the number of
\* prediction vectors.
C7_MismatchRaises ==
  (NCalled(nout) /\ (Ragged(ps) \/ Len(es) # Len(ps))) => ~NReturned(nout)

\* C8 (the claim as stated): netflix raises whenever no model is supplied
\* or the prediction vectors have length zero.
C8_EmptyRaises ==
  (/\ NCalled(nout)
   /\ \/ Len(es) = 0
      \/ Len(ps) = 0
      \/ \A j \in DOMAIN ps : Len(ps[j]) = 0)
  => ~NReturned(nout)

\* The inputs the ridge equation is claimed for: as many scores as
\* prediction vectors (m >= 1), the vectors of one length n >= 1, l > 0.
WellFormedPositive ==
  /\ Len(es) = Len(ps)
  /\ Len(ps) >= 1
  /\ ~Ragged(ps)
  /\ Len(ps[1]) >= 1
  /\ l # Zero
  /\ RLe(Zero, l)

\* Row i of (X^T X + l*n*I) times w, written out from the inputs.
RidgeRow(i, w) ==
  RAdd(RSum(Arr([j \in DOMAIN ps |-> RMul(RInt(Dot(ps[i], ps[j])), w[j])])),
       RMul(RMul(l, RInt(Len(ps[1]))), w[i]))

\* 0.5 * (n*e0^2 + sum_i X_ij^2 - n*es_j^2), written out from the inputs.
RightHandSide(j) ==
  RMul(Half,
       RSub(RAdd(RMul(RInt(Len(ps[1])), Squared(e0)), RInt(SumSq(ps[j]))),
            RMul(RInt(Len(ps[1])), Squared(es[j]))))

\* C11: for m >= 1 models, equal-length vectors of length n >= 1 and l > 0,
\* netflix returns, the returned weights w satisfy
\* (X^T X + l*n*I) w = pTy with pTy_j = 0.5*(n*e0^2 + sum_i X_ij^2 - n*es_j^2)
\* (the ridge term is l*n), and the returned blend is X w.
C11_RidgeEquation ==
  (NCalled(nout) /\ WellFormedPositive) =>
    /\ NReturned(nout)
    /\ Len(nout.w) = Len(ps)
    /\ \A j \in DOMAIN ps :
         /\ nout.pTy[j] = RightHandSide(j)
         /\ RidgeRow(j, nout.w) = RightHandSide(j)
    /\ nout.pred =
         Arr([i \in DOMAIN ps[1] |->
               RSum(Arr([j \in DOMAIN ps |-> RMul(RInt(ps[j][i]), nout.w[j])]))])

C11_Witness ==
  /\ NReturned(nout)
  /\ WellFormedPositive
  /\ Len(ps) = 2
  /\ Len(ps[1]) = 2
  /\ Dot(ps[1], ps[2]) # 0
  /\ ps[1] # ps[2]
  /\ nout.w[1] # nout.w[2]
  /\ nout.w[1] # Zero
  /\ nout.w[2] # Zero

\* ------------------------------------------------ properties: make_predictions
\* C14 (the claim as stated): when make_predictions has blended, for every
\* i below the number of dataset paths the OOF column model_i that weight i
\* was solved from and the test column model_i that weight i multiplies
\* both come from dataset path i, whatever the number of OOF files under
\* each path.
C14_ColumnsAligned ==
  mpc = "done" =>
    \A i \in DOMAIN dataset_paths :
      /\ mout.blend[i].weightFrom = i
      /\ mout.blend[i].appliedTo = i

====
